---- MODULE Spec2Model ----
(***************************************************************************)
(* Model of the lang package (translation lookup, fallback rendering,      *)
(* catalog registration and start-up locale selection) found in            *)
(* src/internal/driver/glfw/window_x11.go, lines 17-188.                   *)
(*                                                                         *)
(* Texts, keys, file names and locale tags are strings.  A template is a   *)
(* string in which "{{" opens an action and "}}" closes it; the only       *)
(* well-formed action of the modelled fragment is a field reference        *)
(* "{{.N}}".                                                               *)
(***************************************************************************)
EXTENDS Integers, Sequences, FiniteSets, TLC

VARIABLES pc, fsys, sysLocales, bundle, translated, localizer, frame, busy

vars == <<pc, fsys, sysLocales, bundle, translated, localizer, frame, busy>>

(***************************************************************************)
(* Bounds of the model.                                                    *)
(***************************************************************************)
MaxLen == 2      \* chunks per text passed to a translate call
MaxData == 2     \* elements of a variadic data list
MaxFiles == 2    \* entries of the embedded translations directory
MaxLocales == 2  \* entries of the user's locale preference list

(***************************************************************************)
(* String helpers (package strings).                                       *)
(***************************************************************************)
Min(S) == CHOOSE x \in S : \A y \in S : x <= y

Max(S) == CHOOSE x \in S : \A y \in S : x >= y

\* positions at which sub occurs in s
Occurrences(s, sub) ==
    {j \in 1..(Len(s) - Len(sub) + 1) : SubSeq(s, j, j + Len(sub) - 1) = sub}

\* strings.Index, 1-based, 0 when absent
Index(s, sub) ==
    IF Occurrences(s, sub) = {} THEN 0 ELSE Min(Occurrences(s, sub))

\* strings.LastIndex, 1-based, 0 when absent
LastIndex(s, sub) ==
    IF Occurrences(s, sub) = {} THEN 0 ELSE Max(Occurrences(s, sub))

\* strings.Contains
Contains(s, sub) == Occurrences(s, sub) # {}

(***************************************************************************)
(* Template data.  nil, a map holding the key N, and a struct without a    *)
(* field N (on which evaluating .N is an execution error).                 *)
(***************************************************************************)
NilData == [kind |-> "nil", fields |-> {}]

MapData == [kind |-> "map", fields |-> {"N"}]

StructData == [kind |-> "struct", fields |-> {}]

DataVals == {MapData, StructData}

RECURSIVE SeqsUpTo(_, _)
SeqsUpTo(S, n) ==
    IF n = 0 THEN {<<>>}
    ELSE LET p == SeqsUpTo(S, n - 1)
         IN  p \cup {Append(q, x) : q \in p, x \in S}

DataLists == SeqsUpTo(DataVals, MaxData)

\* var d0 any; if len(data) > 0 { d0 = data[0] }
FirstData(data) == IF Len(data) > 0 THEN data[1] ELSE NilData

(***************************************************************************)
(* text/template: Parse and Execute.                                       *)
(***************************************************************************)
LeftDelim == "{{"

RightDelim == "}}"

NoValue == "<no value>"

FieldValue == "v"

\* template.Parse: text up to the next "{{" is a text node, what lies
\* between "{{" and the next "}}" must be a field reference; an unclosed or
\* otherwise malformed action is a parse error.
RECURSIVE ParseTemplate(_)
ParseTemplate(s) ==
    LET i == Index(s, LeftDelim)
    IN  IF i = 0
        THEN [err |-> FALSE,
              nodes |-> IF s = "" THEN <<>> ELSE <<[kind |-> "text", val |-> s]>>]
        ELSE LET before == SubSeq(s, 1, i - 1)
                 rest == SubSeq(s, i + 2, Len(s))
                 j == Index(rest, RightDelim)
                 body == SubSeq(rest, 1, j - 1)
                 tail == ParseTemplate(SubSeq(rest, j + 2, Len(rest)))
                 head == IF before = "" THEN <<>>
                         ELSE <<[kind |-> "text", val |-> before]>>
             IN  IF j = 0 \/ Len(body) < 2 \/ SubSeq(body, 1, 1) # "."
                    \/ Contains(body, "{")
                 THEN [err |-> TRUE, nodes |-> <<>>]
                 ELSE IF tail.err
                      THEN [err |-> TRUE, nodes |-> <<>>]
                      ELSE [err |-> FALSE,
                            nodes |-> head
                                \o <<[kind |-> "field",
                                      val |-> SubSeq(body, 2, Len(body))]>>
                                \o tail.nodes]

\* t.Execute(w, data): writes node after node into w; a field of nil data or
\* a missing map key prints "<no value>", a missing struct field stops the
\* execution with an error and leaves what was written so far.
RECURSIVE ExecuteTemplate(_, _)
ExecuteTemplate(nodes, data) ==
    IF nodes = <<>> THEN [out |-> "", err |-> FALSE]
    ELSE LET n == Head(nodes)
             r == ExecuteTemplate(Tail(nodes), data)
         IN  IF n.kind = "text"
             THEN [out |-> n.val \o r.out, err |-> r.err]
             ELSE IF n.val \in data.fields
                  THEN [out |-> FieldValue \o r.out, err |-> r.err]
                  ELSE IF data.kind = "struct"
                       THEN [out |-> "", err |-> TRUE]
                       ELSE [out |-> NoValue \o r.out, err |-> r.err]

\* fallbackWithData skipping the template when there is no data
fallbackWithDataSkipNil(key, fallback, data) ==
    LET t == ParseTemplate(fallback)
    IN  IF t.err \/ data = NilData THEN fallback
        ELSE ExecuteTemplate(t.nodes, data).out

\* fallbackWithData returning the empty builder when the parse fails
fallbackWithDataEmptyOnError(key, fallback, data) ==
    LET t == ParseTemplate(fallback)
    IN  IF t.err THEN ""
        ELSE ExecuteTemplate(t.nodes, data).out

\* func fallbackWithData(key, fallback string, data any) string
fallbackWithData(key, fallback, data) ==
    LET t == ParseTemplate(fallback)
    IN  IF t.err THEN fallback
        ELSE ExecuteTemplate(t.nodes, data).out


(***************************************************************************)
(* Locale tags (golang.org/x/text/language).                               *)
(***************************************************************************)
DefaultLanguage == "en"    \* language.English, the bundle's default

Und == "und"               \* language.Und

Locales == {"en", "fr", "fr-CA"}

\* language.Make: the tag of a well-formed name, Und otherwise
Make(name) == IF name \in Locales THEN name ELSE Und

\* the language part of a tag
BaseLang(t) == IF Contains(t, "-") THEN SubSeq(t, 1, Index(t, "-") - 1) ELSE t

(***************************************************************************)
(* The translation engine (go-i18n Bundle and Localizer) as the code uses  *)
(* it.  A message has the plural forms one and other; "" is an absent      *)
(* form.  A bundle is the set of its tags and its message templates,       *)
(* indexed by <<tag, id>>.                                                 *)
(***************************************************************************)
NoMsg == [one |-> "", other |-> ""]

NoCount == 0 - 1   \* a LocalizeConfig without PluralCount

\* bundle = i18n.NewBundle(language.English)
NewBundle == [tags |-> {DefaultLanguage}, msgs |-> <<>>]

HasMsg(b, tag, id) == <<tag, id>> \in DOMAIN b.msgs

\* the bundle tag the matcher selects for a localizer language: the tag
\* itself, else its language, else the default language
MatchTag(b, lang) ==
    IF lang \in b.tags THEN lang
    ELSE IF BaseLang(lang) \in b.tags THEN BaseLang(lang)
    ELSE DefaultLanguage

\* plural category of a count (English and French rules)
PluralForm(tag, count) == IF count = 1 THEN "one" ELSE "other"

\* the engine's template execution: a text without "{{" is returned as it
\* is; a parse or execution failure yields no text and an error
EngineExecute(src, data) ==
    IF ~Contains(src, LeftDelim) THEN [out |-> src, err |-> FALSE]
    ELSE LET t == ParseTemplate(src)
             r == ExecuteTemplate(t.nodes, data)
         IN  IF t.err \/ r.err THEN [out |-> "", err |-> TRUE]
             ELSE [out |-> r.out, err |-> FALSE]

\* execution of one plural form of a message; an absent form is an error
MsgExecute(m, form, data) ==
    IF m[form] = "" THEN [out |-> "", err |-> TRUE]
    ELSE EngineExecute(m[form], data)

\* the template the engine selects for (id, DefaultMessage{ID: id, Other:
\* other}): the message of the matched tag, else the default message when
\* the matched tag is the default language, else the default language's
\* message, else the default message together with a not-found error
GetMessageTemplate(b, lang, id, other) ==
    LET tag == MatchTag(b, lang)
        dm == [one |-> "", other |-> other]
    IN  IF HasMsg(b, tag, id)
        THEN [tag |-> tag, mt |-> b.msgs[<<tag, id>>], err |-> FALSE]
        ELSE IF tag = DefaultLanguage
             THEN [tag |-> tag, mt |-> dm, err |-> other = ""]
             ELSE IF HasMsg(b, DefaultLanguage, id)
                  THEN [tag |-> DefaultLanguage,
                        mt |-> b.msgs[<<DefaultLanguage, id>>], err |-> FALSE]
                  ELSE [tag |-> DefaultLanguage, mt |-> dm, err |-> TRUE]

\* localizer.Localize(&i18n.LocalizeConfig{DefaultMessage: {ID: id, Other:
\* other}, PluralCount: count, TemplateData: d0}): the pair (ret, err)
EngineLocalize(b, lang, id, other, count, d0) ==
    LET sel == GetMessageTemplate(b, lang, id, other)
        data == IF count # NoCount /\ d0 = NilData
                THEN [kind |-> "map", fields |-> {"PluralCount"}]
                ELSE d0
        form == IF count = NoCount THEN "other" ELSE PluralForm(sel.tag, count)
        r == MsgExecute(sel.mt, form, data)
        r2 == MsgExecute(sel.mt, "other", data)
    IN  IF sel.mt = NoMsg THEN [msg |-> "", err |-> TRUE]
        ELSE IF r.err
             THEN [msg |-> IF form # "other" /\ ~r2.err THEN r2.out ELSE r.out,
                   err |-> TRUE]
             ELSE [msg |-> r.out, err |-> sel.err]

\* the language and format the engine reads off a file name: the segment
\* between the last two dots (or from the start) and the one after the last
ParsePath(name) ==
    LET d == LastIndex(name, ".")
        stem == SubSeq(name, 1, d - 1)
        d2 == LastIndex(stem, ".")
    IN  IF d = 0 THEN [lang |-> "", format |-> ""]
        ELSE [lang |-> SubSeq(stem, d2 + 1, Len(stem)),
              format |-> SubSeq(name, d + 1, Len(name))]

\* bundle.ParseMessageFileBytes(data, name): a catalog that does not parse
\* leaves the bundle as it is and returns an error; a parsed one adds its
\* tag and overrides the messages it defines
ParseMessageFileBytes(b, data, name) ==
    LET p == ParsePath(name)
        tag == Make(p.lang)
    IN  IF ~data.wellFormed \/ p.format # "json"
        THEN [bundle |-> b, err |-> TRUE]
        ELSE [bundle |->
                [tags |-> b.tags \cup {tag},
                 msgs |-> [k \in DOMAIN b.msgs \cup {<<tag, data.id>>} |->
                             IF k = <<tag, data.id>> THEN data.msg
                             ELSE b.msgs[k]]],
              err |-> FALSE]

(***************************************************************************)
(* The package's functions.                                                *)
(***************************************************************************)
NoLocalizer == [lang |-> "nil"]

\* i18n.NewLocalizer(bundle, lang): the localizer keeps the bundle by
\* reference and its language
NewLocalizer(lang) == [lang |-> lang]

\* LocalizeKey returning the engine's text whatever the error
LocalizeKeyIgnoringErr(key, fallback, data) ==
    EngineLocalize(bundle, localizer.lang, key, fallback, NoCount,
                   FirstData(data)).msg

\* LocalizeKey with ID and Other of the default message exchanged
LocalizeKeySwapped(key, fallback, data) ==
    LET d0 == FirstData(data)
        r == EngineLocalize(bundle, localizer.lang, fallback, key, NoCount, d0)
    IN  IF r.err THEN fallbackWithData(key, fallback, d0)
        ELSE r.msg

\* func LocalizeKey(key, fallback string, data ...any) string
LocalizeKey(key, fallback, data) ==
    LET d0 == FirstData(data)
        r == EngineLocalize(bundle, localizer.lang, key, fallback, NoCount, d0)
    IN  IF r.err THEN fallbackWithData(key, fallback, d0)
        ELSE r.msg

\* Localize without a fallback text
LocalizeNoFallback(in, data) == LocalizeKey(in, "", data)

\* func Localize(in string, data ...any) string
Localize(in, data) == LocalizeKey(in, in, data)

\* func LocalizePlural(in string, count int, data ...any) string
LocalizePlural(in, count, data) ==
    LET d0 == FirstData(data)
        r == EngineLocalize(bundle, localizer.lang, in, in, count, d0)
    IN  IF r.err THEN fallbackWithData(in, in, d0)
        ELSE r.msg

\* addLanguage parsing the catalog without merging it into the bundle
addLanguageDropped(data, name) ==
    [bundle |-> bundle, err |-> ParseMessageFileBytes(bundle, data, name).err]

\* func addLanguage(data []byte, name string) error
addLanguage(data, name) == ParseMessageFileBytes(bundle, data, name)


(***************************************************************************)
(* Inputs of the model.                                                    *)
(***************************************************************************)
Chunks == {"a", "{{.N}}", "{{"}

\* the texts made of at most n chunks
RECURSIVE TextsUpTo(_)
TextsUpTo(n) ==
    IF n = 0 THEN {""}
    ELSE LET p == TextsUpTo(n - 1)
         IN  p \cup {t \o c : t \in p, c \in Chunks}

Texts == TextsUpTo(MaxLen)

\* message ids that catalogs define, and ids that translate calls ask for
CatKeys == {"a"}

CallKeys == {"a", "aa"}

\* messages that catalogs define: plain, with a placeholder, and with plural
\* forms of which the other form is a malformed template
CatalogMsgs ==
    {[one |-> "", other |-> "b"],
     [one |-> "", other |-> "b{{.N}}"],
     [one |-> "c", other |-> "d{{"]}

\* the bytes of a catalog: one message, or bytes that do not parse
Malformed == [wellFormed |-> FALSE, id |-> "", msg |-> NoMsg]

Catalogs ==
    {[wellFormed |-> TRUE, id |-> k, msg |-> m] : k \in CatKeys, m \in CatalogMsgs}
    \cup {Malformed}

\* locales for which catalogs are registered at run time
CatLocales == {"en", "fr"}

\* fyne.Resource values passed to AddTranslations
Resources ==
    [name : {"en.json", "fr.json", "fr.toml"}, content : Catalogs]

Counts == {1, 2}

\* entries of the embedded translations directory
BundledNames ==
    {"base.en.json", "base.fr.json", "template.json", "fr.json", "readme.json"}

BundledCatalog ==
    [wellFormed |-> TRUE, id |-> "a", msg |-> [one |-> "", other |-> "e"]]

FileEntries ==
    [name : BundledNames, readable : {TRUE}, data : {BundledCatalog, Malformed}]
    \cup [name : BundledNames, readable : {FALSE}, data : {Malformed}]

\* what locale.GetLocales() returns
LocaleLists == SeqsUpTo(Locales, MaxLocales)

Range(q) == {q[i] : i \in 1..Len(q)}

(***************************************************************************)
(* Start-up: func init().                                                  *)
(***************************************************************************)
\* the loop of loadTranslationsFromFS over the directory entries
RECURSIVE LoadFiles(_, _, _)
LoadFiles(files, b, tr) ==
    IF files = <<>> THEN [bundle |-> b, translated |-> tr, panic |-> FALSE]
    ELSE LET f == Head(files)
             p == ParseMessageFileBytes(b, f.data, f.name)
             n == Len(f.name)
             name == IF ~Contains(f.name, "template")
                     THEN SubSeq(f.name, 6, n - 5)
                     ELSE "en"
         IN  IF ~f.readable THEN LoadFiles(Tail(files), b, tr)
             ELSE IF p.err
                  THEN [bundle |-> b, translated |-> tr, panic |-> TRUE]
                  ELSE IF ~Contains(f.name, "template") /\ n - 5 < 5
                       THEN [bundle |-> p.bundle, translated |-> tr,
                             panic |-> TRUE]
                       ELSE LoadFiles(Tail(files), p.bundle,
                                      Append(tr, Make(name)))

\* func loadTranslationsFromFS(fs embed.FS, dir string), called by init on
\* the new bundle
loadTranslationsFromFS ==
    /\ pc = "boot"
    /\ LET r == IF fsys.dirOk THEN LoadFiles(fsys.files, bundle, translated)
                ELSE [bundle |-> bundle, translated |-> translated,
                      panic |-> FALSE]
       IN  /\ bundle' = r.bundle
           /\ translated' = r.translated
           /\ pc' = IF r.panic THEN "crashed" ELSE "loaded"
    /\ UNCHANGED <<fsys, sysLocales, localizer, frame, busy>>

\* init keeping the list GetLocales returned with its error
userLocalesKept(res) == res.all

\* all, err := locale.GetLocales(); if err != nil { all = []string{"en"} }
userLocales(res) == IF res.err THEN <<"en">> ELSE res.all

\* closestSupportedLocale(all).LanguageString(): the first preference with
\* an exact or language-only match among the loaded locales, else "en"
RECURSIVE closestSupportedLocale(_)
closestSupportedLocale(all) ==
    IF all = <<>> THEN DefaultLanguage
    ELSE LET u == Head(all)
             same == {i \in 1..Len(translated) :
                         BaseLang(translated[i]) = BaseLang(u)}
         IN  IF u \in Range(translated) THEN u
             ELSE IF same # {} THEN translated[Min(same)]
             ELSE closestSupportedLocale(Tail(all))

\* the rest of init: locale enumeration, resolution, setupLang(str) and
\* localizer = i18n.NewLocalizer(bundle, str), which both set the localizer
\* to the same value
initLocale ==
    /\ pc = "loaded"
    /\ LET all == userLocales(sysLocales)
           str == closestSupportedLocale(all)
       IN  /\ localizer' = NewLocalizer(str)
           /\ frame' = [op |-> "init", all |-> all, str |-> str]
    /\ pc' = "ready"
    /\ UNCHANGED <<fsys, sysLocales, bundle, translated, busy>>

(***************************************************************************)
(* Run time, one caller: each call is one step; Return is the caller       *)
(* taking the result.                                                      *)
(***************************************************************************)
NoCall == [op |-> "none"]

Threads == {1, 2}

Idle == [t \in Threads |-> [pc |-> "idle"]]

CanCall == pc = "ready" /\ frame = NoCall /\ busy = Idle

TranslateOps == {"Localize", "LocalizeKey", "LocalizePlural"}

RegisterOps == {"AddTranslations", "AddTranslationsForLocale"}

LocalizeCall ==
    /\ CanCall
    /\ \E in \in Texts, data \in DataLists :
          frame' = [op |-> "Localize", in |-> in, data |-> data,
                    ret |-> Localize(in, data)]
    /\ UNCHANGED <<pc, fsys, sysLocales, bundle, translated, localizer, busy>>

LocalizeKeyCall ==
    /\ CanCall
    /\ \E key \in CallKeys, fallback \in Texts, data \in DataLists :
          frame' = [op |-> "LocalizeKey", key |-> key, fallback |-> fallback,
                    data |-> data, ret |-> LocalizeKey(key, fallback, data)]
    /\ UNCHANGED <<pc, fsys, sysLocales, bundle, translated, localizer, busy>>

LocalizePluralCall ==
    /\ CanCall
    /\ \E in \in Texts, count \in Counts, data \in DataLists :
          frame' = [op |-> "LocalizePlural", in |-> in, count |-> count,
                    data |-> data, ret |-> LocalizePlural(in, count, data)]
    /\ UNCHANGED <<pc, fsys, sysLocales, bundle, translated, localizer, busy>>

\* func AddTranslations(r fyne.Resource) error
AddTranslations ==
    /\ CanCall
    /\ \E r \in Resources :
          LET res == addLanguage(r.content, r.name)
          IN  /\ bundle' = res.bundle
              /\ frame' = [op |-> "AddTranslations", name |-> r.name,
                           content |-> r.content, err |-> res.err]
    /\ UNCHANGED <<pc, fsys, sysLocales, translated, localizer, busy>>

\* AddTranslationsForLocale also making l the active locale
AddTranslationsForLocaleActivating ==
    /\ CanCall
    /\ \E data \in Catalogs, l \in CatLocales :
          LET res == addLanguage(data, l \o ".json")
          IN  /\ bundle' = res.bundle
              /\ localizer' = NewLocalizer(l)
              /\ frame' = [op |-> "AddTranslationsForLocale",
                           name |-> l \o ".json", content |-> data,
                           err |-> res.err]
    /\ UNCHANGED <<pc, fsys, sysLocales, translated, busy>>

\* func AddTranslationsForLocale(data []byte, l fyne.Locale) error
AddTranslationsForLocale ==
    /\ CanCall
    /\ \E data \in Catalogs, l \in CatLocales :
          LET res == addLanguage(data, l \o ".json")
          IN  /\ bundle' = res.bundle
              /\ frame' = [op |-> "AddTranslationsForLocale",
                           name |-> l \o ".json", content |-> data,
                           err |-> res.err]
    /\ UNCHANGED <<pc, fsys, sysLocales, translated, localizer, busy>>

\* func setupLang(lang string)
setupLang ==
    /\ CanCall
    /\ \E lang \in Locales :
          /\ localizer' = NewLocalizer(lang)
          /\ frame' = [op |-> "setupLang", lang |-> lang]
    /\ UNCHANGED <<pc, fsys, sysLocales, bundle, translated, busy>>

\* the caller has taken the result of the call
Return ==
    /\ pc = "ready"
    /\ frame # NoCall
    /\ frame' = NoCall
    /\ UNCHANGED <<pc, fsys, sysLocales, bundle, translated, localizer, busy>>

(***************************************************************************)
(* Specifications.                                                         *)
(***************************************************************************)
\* embedded directories the run-time specification starts from
StandardFS ==
    [dirOk |-> TRUE,
     files |-> <<[name |-> "base.en.json", readable |-> TRUE,
                  data |-> BundledCatalog],
                 [name |-> "base.fr.json", readable |-> TRUE,
                  data |-> BundledCatalog]>>]

UnreadableFS == [dirOk |-> FALSE, files |-> <<>>]

InitCommon ==
    /\ pc = "boot"
    /\ bundle = NewBundle
    /\ translated = <<>>
    /\ localizer = NoLocalizer
    /\ frame = NoCall
    /\ busy = Idle

Init ==
    /\ InitCommon
    /\ fsys \in {StandardFS, UnreadableFS}
    /\ sysLocales \in {[all |-> <<"fr-CA", "en">>, err |-> FALSE],
                       [all |-> <<>>, err |-> TRUE]}

Next ==
    \/ loadTranslationsFromFS
    \/ initLocale
    \/ LocalizeCall
    \/ LocalizeKeyCall
    \/ LocalizePluralCall
    \/ AddTranslations
    \/ AddTranslationsForLocale
    \/ setupLang
    \/ Return

Spec == Init /\ [][Next]_vars

(***************************************************************************)
(* Run time, several callers.  The package takes no lock: a call reads or  *)
(* writes bundle and localizer between the step that enters it and the     *)
(* step that leaves it, and calls of different threads interleave freely.  *)
(* An access that overlapped a write of another thread is a data race; its *)
(* outcome is the value computed from the state at its end, or a fatal     *)
(* runtime error.                                                          *)
(***************************************************************************)
\* the translate calls threads make
ConcReads ==
    [op : {"Localize"}, in : CallKeys, data : {<<>>}]
    \cup [op : {"LocalizePlural"}, in : {"a"}, count : {1}, data : {<<>>}]
    \cup [op : {"LocalizeKey"}, key : {"a"}, fallback : {"aa"}, data : {<<>>}]

\* the registrations and locale overrides threads make
ConcWrites ==
    [op : {"AddTranslationsForLocale"}, name : {"fr.json"},
     content : {[wellFormed |-> TRUE, id |-> "a", msg |-> m] :
                   m \in CatalogMsgs}]
    \cup [op : {"AddTranslations"}, name : {"en.json"}, content : {Malformed}]
    \cup [op : {"setupLang"}, lang : {"en", "fr"}]

Writing(t) == busy[t].pc = "writing"

Reading(t) == busy[t].pc = "reading"

\* a thread enters Localize, LocalizeKey or LocalizePlural
BeginRead(t) ==
    /\ pc = "ready"
    /\ busy[t].pc = "idle"
    /\ \E c \in ConcReads :
          busy' = [busy EXCEPT ![t] =
                      [pc |-> "reading", call |-> c,
                       raced |-> \E u \in Threads \ {t} : Writing(u)]]
    /\ UNCHANGED <<pc, fsys, sysLocales, bundle, translated, localizer, frame>>

\* the thread's translate call returns
EndRead(t) ==
    /\ pc = "ready"
    /\ Reading(t)
    /\ LET c == busy[t].call
           ret == IF c.op = "LocalizePlural"
                  THEN LocalizePlural(c.in, c.count, c.data)
                  ELSE IF c.op = "Localize" THEN Localize(c.in, c.data)
                  ELSE LocalizeKey(c.key, c.fallback, c.data)
       IN  \/ /\ frame' = c @@ [ret |-> ret]
              /\ pc' = pc
           \/ /\ busy[t].raced
              /\ frame' = [op |-> c.op, fatal |-> "concurrent map read and map write"]
              /\ pc' = "crashed"
    /\ busy' = [busy EXCEPT ![t] = [pc |-> "idle"]]
    /\ UNCHANGED <<fsys, sysLocales, bundle, translated, localizer>>

\* a thread enters AddTranslations, AddTranslationsForLocale or setupLang;
\* every call in progress now overlaps a write
BeginWrite(t) ==
    /\ pc = "ready"
    /\ busy[t].pc = "idle"
    /\ \E c \in ConcWrites :
          busy' = [u \in Threads |->
                      IF u = t
                      THEN [pc |-> "writing", call |-> c,
                            raced |-> \E v \in Threads \ {t} :
                                         busy[v].pc # "idle"]
                      ELSE IF busy[u].pc = "idle" THEN busy[u]
                           ELSE [busy[u] EXCEPT !.raced = TRUE]]
    /\ UNCHANGED <<pc, fsys, sysLocales, bundle, translated, localizer, frame>>

\* the thread's write returns
EndWrite(t) ==
    /\ pc = "ready"
    /\ Writing(t)
    /\ LET c == busy[t].call
       IN  \/ /\ c.op = "setupLang"
              /\ localizer' = NewLocalizer(c.lang)
              /\ frame' = c
              /\ UNCHANGED <<pc, bundle>>
           \/ /\ c.op # "setupLang"
              /\ LET res == addLanguage(c.content, c.name)
                 IN  /\ bundle' = res.bundle
                     /\ frame' = c @@ [err |-> res.err]
              /\ UNCHANGED <<pc, localizer>>
           \/ /\ busy[t].raced
              /\ c.op # "setupLang"
              /\ frame' = [op |-> c.op, fatal |-> "concurrent map writes"]
              /\ pc' = "crashed"
              /\ UNCHANGED <<bundle, localizer>>
    /\ busy' = [busy EXCEPT ![t] = [pc |-> "idle"]]
    /\ UNCHANGED <<fsys, sysLocales, translated>>

InitConc ==
    /\ InitCommon
    /\ fsys = StandardFS
    /\ sysLocales = [all |-> <<"fr-CA", "en">>, err |-> FALSE]

NextConc ==
    \/ loadTranslationsFromFS
    \/ initLocale
    \/ \E t \in Threads : BeginRead(t)
    \/ \E t \in Threads : EndRead(t)
    \/ \E t \in Threads : BeginWrite(t)
    \/ \E t \in Threads : EndWrite(t)

SpecConc == InitConc /\ [][NextConc]_vars

\* start-up alone, over every embedded directory and enumeration result
InitStartup ==
    /\ InitCommon
    /\ fsys \in [dirOk : BOOLEAN, files : SeqsUpTo(FileEntries, MaxFiles)]
    /\ sysLocales \in [all : LocaleLists, err : BOOLEAN]

NextStartup ==
    \/ loadTranslationsFromFS
    \/ initLocale

SpecStartup == InitStartup /\ [][NextStartup]_vars

(***************************************************************************)
(* Properties.                                                             *)
(***************************************************************************)
\* the arguments of the translate call recorded in a frame
CallKey(f) == IF f.op = "LocalizeKey" THEN f.key ELSE f.in

CallFallback(f) == IF f.op = "LocalizeKey" THEN f.fallback ELSE f.in

CallCount(f) == IF f.op = "LocalizePlural" THEN f.count ELSE NoCount

\* what the engine answers to the call recorded in a frame
EngineResult(f) ==
    EngineLocalize(bundle, localizer.lang, CallKey(f), CallFallback(f),
                   CallCount(f), FirstData(f.data))

\* the bundle tag a registration recorded in a frame went to
RegTag(f) == Make(ParsePath(f.name).lang)

Plain(text) == text # "" /\ ~Contains(text, LeftDelim)

\* C1: every translate call returns a string, and whenever the engine
\* reports an error the returned string is the fallback renderer's output
\* for the fallback text (the input itself for Localize and LocalizePlural)
\* and the first data element, whatever text the engine returned.
C1_FallbackOnEngineFailure ==
    frame.op \in TranslateOps =>
        /\ frame.ret \in STRING
        /\ EngineResult(frame).err =>
              frame.ret = fallbackWithData(CallKey(frame), CallFallback(frame),
                                           FirstData(frame.data))

C1_Witness ==
    /\ frame.op = "LocalizePlural"
    /\ EngineResult(frame).err
    /\ EngineResult(frame).msg # ""
    /\ EngineResult(frame).msg # frame.ret
    /\ Len(frame.data) = 2
    /\ frame.data[1] # frame.data[2]

\* C2: LocalizeKey of a key that has a stored placeholder-free text for the
\* active locale returns that text, whatever the fallback and the data.
C2_StoredTextReturned ==
    (/\ frame.op = "LocalizeKey"
     /\ HasMsg(bundle, localizer.lang, frame.key)
     /\ Plain(bundle.msgs[<<localizer.lang, frame.key>>].other))
    => frame.ret = bundle.msgs[<<localizer.lang, frame.key>>].other

C2_Witness ==
    /\ frame.op = "LocalizeKey"
    /\ localizer.lang = "fr"
    /\ HasMsg(bundle, "fr", frame.key)
    /\ bundle.msgs[<<"fr", frame.key>>].other = "b"
    /\ frame.ret = "b"
    /\ frame.fallback = "a{{.N}}"
    /\ HasMsg(bundle, "en", frame.key)
    /\ bundle.msgs[<<"en", frame.key>>].other # "b"

\* C3 as stated: right after a successful registration of a catalog with a
\* placeholder-free text, LocalizeKey of the key it defines returns the new
\* text, whatever the active locale.
C3_Original ==
    (/\ frame.op \in RegisterOps
     /\ ~frame.err
     /\ Plain(frame.content.msg.other))
    => \A fallback \in Texts, data \in DataLists :
          LocalizeKey(frame.content.id, fallback, data) = frame.content.msg.other

\* C3 amended: right after a successful registration of a catalog with a
\* placeholder-free text for the bundle tag the active locale resolves to,
\* LocalizeKey of the key it defines returns the new text, whatever the
\* fallback and the data, and whatever text the key had before.
C3_RoundTripActiveLocale ==
    (/\ frame.op \in RegisterOps
     /\ ~frame.err
     /\ Plain(frame.content.msg.other)
     /\ RegTag(frame) = MatchTag(bundle, localizer.lang))
    => \A fallback \in Texts, data \in DataLists :
          LocalizeKey(frame.content.id, fallback, data) = frame.content.msg.other

C3_Witness ==
    /\ frame.op = "AddTranslationsForLocale"
    /\ ~frame.err
    /\ fsys = StandardFS
    /\ frame.content.msg.other = "b"
    /\ RegTag(frame) = "fr"
    /\ localizer.lang = "fr-CA"
    /\ LocalizeKey(frame.content.id, "a", <<>>) = "b"

\* C4: no write of the bundle or of the active locale is in progress while
\* another thread's read or write is in progress.
C4_MutualExclusion ==
    \A t \in Threads, u \in Threads :
        (t # u /\ Writing(t)) => busy[u].pc = "idle"

\* C5 as stated: with an empty data list, LocalizeKey on the fallback path
\* returns the fallback text character for character.
C5_Original ==
    (/\ frame.op = "LocalizeKey"
     /\ frame.data = <<>>
     /\ EngineResult(frame).err)
    => frame.ret = frame.fallback

\* a text with "<no value>" in place of every placeholder "{{.N}}"
RECURSIVE WithNoValue(_)
WithNoValue(s) ==
    LET i == Index(s, "{{.N}}")
    IN  IF i = 0 THEN s
        ELSE SubSeq(s, 1, i - 1) \o NoValue
                \o WithNoValue(SubSeq(s, i + 6, Len(s)))

\* C5 amended: with an empty data list, LocalizeKey on the fallback path
\* returns the fallback text character for character when it holds no "{{"
\* or does not parse as a template; a fallback that parses and holds
\* placeholders is executed against nil data, so that the result is the
\* fallback with "<no value>" in place of each placeholder.
C5_NoDataFallback ==
    (/\ frame.op = "LocalizeKey"
     /\ frame.data = <<>>
     /\ EngineResult(frame).err)
    => IF ~Contains(frame.fallback, LeftDelim) \/ ParseTemplate(frame.fallback).err
       THEN frame.ret = frame.fallback
       ELSE /\ frame.ret # frame.fallback
            /\ frame.ret = WithNoValue(frame.fallback)

C5_Witness ==
    /\ frame.op = "LocalizeKey"
    /\ frame.data = <<>>
    /\ EngineResult(frame).err
    /\ frame.fallback = "a{{.N}}"
    /\ frame.ret = "a<no value>"

\* C6: on the fallback path the call returns a string, and a fallback text
\* that does not parse as a template is returned verbatim, for every key and
\* every data.
C6_MalformedFallbackVerbatim ==
    (/\ frame.op \in TranslateOps
     /\ EngineResult(frame).err)
    => /\ frame.ret \in STRING
       /\ ParseTemplate(CallFallback(frame)).err
             => frame.ret = CallFallback(frame)

C6_Witness ==
    /\ frame.op = "LocalizeKey"
    /\ EngineResult(frame).err
    /\ frame.fallback = "{{.N}}{{"
    /\ frame.data = <<MapData>>
    /\ frame.ret = "{{.N}}{{"

\* C7: Localize(in, data...) returns what LocalizeKey(in, in, data...)
\* returns in the same state.
C7_LocalizeIsLocalizeKey ==
    frame.op = "Localize" =>
        frame.ret = LocalizeKey(frame.in, frame.in, frame.data)

C7_Witness ==
    /\ frame.op = "Localize"
    /\ frame.in = "a{{.N}}"
    /\ frame.data = <<MapData>>
    /\ frame.ret = "av"
    /\ LocalizeKey(frame.in, "", frame.data) # frame.ret

\* C8: the active locale is set by init to the resolved locale and changes
\* afterwards only in setupLang, which sets it to its argument; no translate
\* call and no registration, failed or not, changes it.
C8_LocaleChangesOnlyInSetupLang ==
    [][/\ localizer' # localizer => frame'.op \in {"init", "setupLang"}
       /\ (frame' # frame /\ frame'.op = "init") => localizer'.lang = frame'.str
       /\ (frame' # frame /\ frame'.op = "setupLang")
             => localizer'.lang = frame'.lang]_vars

C8_Witness ==
    /\ frame.op = "AddTranslationsForLocale"
    /\ ~frame.err
    /\ RegTag(frame) = "en"
    /\ localizer.lang = "fr-CA"

\* C9: start-up with an erroring or empty locale enumeration does not stop
\* in init: the preference list of an erroring enumeration is ["en"], and
\* init ends with a localizer for "en".
C9_EnumerationFailureGivesEn ==
    [][(pc = "loaded" /\ (sysLocales.err \/ sysLocales.all = <<>>))
        => /\ pc' = "ready"
           /\ localizer' = NewLocalizer("en")
           /\ sysLocales.err => frame'.all = <<"en">>]_vars

C9_Witness ==
    /\ pc = "ready"
    /\ sysLocales.err
    /\ sysLocales.all = <<"fr">>
    /\ "fr" \in Range(translated)
    /\ localizer.lang = "en"

\* the tag C10 gives a bundled file name: the locale segment of a name made
\* of a five-character prefix, a locale tag and ".json", else "en"
ClaimedTag(name) ==
    LET n == Len(name)
    IN  IF /\ n >= 10
           /\ SubSeq(name, n - 4, n) = ".json"
           /\ SubSeq(name, 6, n - 5) \in Locales
        THEN SubSeq(name, 6, n - 5)
        ELSE "en"

\* the list C10 gives: one tag per file that was read, in directory order
RECURSIVE ClaimedTranslated(_)
ClaimedTranslated(files) ==
    IF files = <<>> THEN <<>>
    ELSE IF Head(files).readable
         THEN <<ClaimedTag(Head(files).name)>> \o ClaimedTranslated(Tail(files))
         ELSE ClaimedTranslated(Tail(files))

\* C10: when every readable bundled file parses, loadTranslationsFromFS
\* completes and translated holds one tag per file read, in directory
\* order, the default "en" for every name without a locale segment.
C10_TranslatedPerFile ==
    (/\ pc # "boot"
     /\ fsys.dirOk
     /\ \A i \in 1..Len(fsys.files) :
           fsys.files[i].readable => fsys.files[i].data.wellFormed)
    => /\ pc # "crashed"
       /\ translated = ClaimedTranslated(fsys.files)

====
